---------------------------- MODULE Spec2Model ----------------------------
(***************************************************************************)
(* A model of data_processor.py, the sales data processing tool: the row   *)
(* validator clean_and_validate_row, the loader load_and_validate_data,    *)
(* the aggregator compute_statistics and the control flow of main.         *)
(*                                                                         *)
(* Python values are represented as follows.                               *)
(*   str     a sequence of one-character strings, <<"0","0","7">>          *)
(*   float   a record [k, neg, m, e]: k is "fin", "inf" or "nan"; a finite *)
(*           value is (-1)^neg * m * 2^e with m a natural number written   *)
(*           as its limbs in base 2^15, least significant first, m odd or  *)
(*           zero                                                          *)
(*   value   a record [t, s, f]: t is "str", "none", "float" or "list"     *)
(*   int     of int(): a record [neg, d], d its decimal digits as a str    *)
(*           with no leading zero                                          *)
(*   dict    a sequence of <<key, value>> pairs in insertion order; a key  *)
(*           of a row is a str, or NoKey for the key None of               *)
(*           csv.DictReader's surplus values                               *)
(* Messages (reasons, exception texts) are TLA+ strings; the text of the   *)
(* ValueError of csv.DictWriter, which quotes keys, is the sequence of its *)
(* fixed part followed by the characters of the quoted keys.               *)
(***************************************************************************)
EXTENDS Integers, Sequences, FiniteSets, TLC

----------------------------------------------------------------------------
(* Characters: the printable ASCII range and the tab, the line feed, the    *)
(* form feed and the carriage return. The grave accent (code 96) cannot be  *)
(* written in a string literal and is named "grave".                        *)

Ascii ==
  << " ", "!", "\"", "#", "$", "%", "&", "'", "(", ")", "*", "+", ",", "-",
     ".", "/", "0", "1", "2", "3", "4", "5", "6", "7", "8", "9", ":", ";",
     "<", "=", ">", "?", "@", "A", "B", "C", "D", "E", "F", "G", "H", "I",
     "J", "K", "L", "M", "N", "O", "P", "Q", "R", "S", "T", "U", "V", "W",
     "X", "Y", "Z", "[", "\\", "]", "^", "_", "grave", "a", "b", "c", "d", "e",
     "f", "g", "h", "i", "j", "k", "l", "m", "n", "o", "p", "q", "r", "s",
     "t", "u", "v", "w", "x", "y", "z", "{", "|", "}", "~" >>

\* the control characters of the alphabet with their codes
Controls == <<<<"\t", 9>>, <<"\n", 10>>, <<"\f", 12>>, <<"\r", 13>>>>

Chars ==
  {Ascii[i] : i \in 1..Len(Ascii)} \cup {Controls[i][1] : i \in 1..Len(Controls)}

\* ord(c)
OrdF == [c \in Chars |->
           IF \E i \in 1..Len(Controls) : Controls[i][1] = c
             THEN Controls[CHOOSE i \in 1..Len(Controls) : Controls[i][1] = c][2]
           ELSE 31 + (CHOOSE i \in 1..Len(Ascii) : Ascii[i] = c)]

Ord(c) == OrdF[c]

\* chr(n), for the printable range
Chr(n) == Ascii[n - 31]

IsDigit(c) == Ord(c) \in 48..57

IsUpper(c) == Ord(c) \in 65..90

IsLower(c) == Ord(c) \in 97..122

IsCased(c) == IsUpper(c) \/ IsLower(c)

\* str.isspace() of one character: the space and the codes 9 to 13
IsSpace(c) == c = " " \/ Ord(c) \in 9..13

ToUpper(c) == IF IsLower(c) THEN Chr(Ord(c) - 32) ELSE c

ToLower(c) == IF IsUpper(c) THEN Chr(Ord(c) + 32) ELSE c

DigitVal(c) == Ord(c) - 48

DigitChar(d) == Chr(d + 48)

----------------------------------------------------------------------------
(* Strings.                                                                *)

RECURSIVE LStrip(_)
LStrip(s) == IF s # <<>> /\ IsSpace(Head(s)) THEN LStrip(Tail(s)) ELSE s

RECURSIVE RStrip(_)
RStrip(s) ==
  IF s # <<>> /\ IsSpace(s[Len(s)]) THEN RStrip(SubSeq(s, 1, Len(s) - 1)) ELSE s

\* str.strip()
Strip(s) == RStrip(LStrip(s))

\* str.replace(c, ""), for a one-character c
RemoveChar(s, c) == SelectSeq(s, LAMBDA x : x # c)

\* str.lower()
Lower(s) == [i \in 1..Len(s) |-> ToLower(s[i])]

\* str.title(): a cased character is upper-cased when the character before
\* it is not cased, and lower-cased when it is
Title(s) ==
  [i \in 1..Len(s) |->
     IF i > 1 /\ IsCased(s[i - 1]) THEN ToLower(s[i]) ELSE ToUpper(s[i])]

AllDigits(s) == \A i \in 1..Len(s) : IsDigit(s[i])

\* the comparison s < t of two str: by code point, a proper prefix first
RECURSIVE StrLess(_, _)
StrLess(s, t) ==
  IF t = <<>> THEN FALSE
  ELSE IF s = <<>> THEN TRUE
  ELSE IF Head(s) # Head(t) THEN Ord(Head(s)) < Ord(Head(t))
  ELSE StrLess(Tail(s), Tail(t))

\* an underscore of a numeric literal must stand between two digits
UnderscoresOk(s) ==
  \A i \in 1..Len(s) :
     s[i] = "_" => /\ i > 1 /\ i < Len(s)
                   /\ IsDigit(s[i - 1]) /\ IsDigit(s[i + 1])

\* the value of a sequence of decimal digits
RECURSIVE DigitsToInt(_)
DigitsToInt(s) ==
  IF s = <<>> THEN 0
  ELSE 10 * DigitsToInt(SubSeq(s, 1, Len(s) - 1)) + DigitVal(s[Len(s)])

\* the decimal digits of a natural number, no leading zeros
RECURSIVE NatToStr(_)
NatToStr(n) ==
  IF n < 10 THEN <<DigitChar(n)>>
  ELSE NatToStr(n \div 10) \o <<DigitChar(n % 10)>>

\* the first place from lo to hi where s has no "0", hi + 1 for none
RECURSIVE FirstNonZero(_, _, _)
FirstNonZero(s, lo, hi) ==
  IF lo = hi THEN (IF s[lo] # "0" THEN lo ELSE lo + 1)
  ELSE IF FirstNonZero(s, lo, (lo + hi) \div 2) <= (lo + hi) \div 2
    THEN FirstNonZero(s, lo, (lo + hi) \div 2)
  ELSE FirstNonZero(s, ((lo + hi) \div 2) + 1, hi)

\* the decimal digits s, one or more, without their leading zeros
NoLeadingZeros(s) ==
  IF FirstNonZero(s, 1, Len(s)) > Len(s) THEN <<"0">>
  ELSE SubSeq(s, FirstNonZero(s, 1, Len(s)), Len(s))

\* the int of a sign and decimal digits: ints have no size, and none of
\* the arithmetic of the model is done on them
IntOf(neg, digs) ==
  [neg |-> neg /\ NoLeadingZeros(digs) # <<"0">>, d |-> NoLeadingZeros(digs)]

\* n <= 0 of an int
IntLeZero(n) == n.neg \/ n.d = <<"0">>

\* str(n) of an int
IntToStr(n) == IF n.neg THEN <<"-">> \o n.d ELSE n.d

\* n written with at least w digits, zero padded
RECURSIVE ZeroPad(_, _)
ZeroPad(s, w) == IF Len(s) >= w THEN s ELSE ZeroPad(<<"0">> \o s, w)

\* sys.get_int_max_str_digits(), the default of Python 3.11
MAX_STR_DIGITS == 4300

\* int(s) of a str: [ok, v]. Surrounding whitespace is dropped, one sign is
\* allowed, then decimal digits with single underscores between digits. A
\* literal of more than MAX_STR_DIGITS digits, leading zeros counted, is a
\* ValueError as a malformed one is.
PyInt(s) ==
  LET t    == Strip(s)
      sgn  == t # <<>> /\ Head(t) \in {"+", "-"}
      body == IF sgn THEN Tail(t) ELSE t
      digs == RemoveChar(body, "_")
      good == /\ digs # <<>> /\ AllDigits(digs) /\ UnderscoresOk(body)
              /\ Len(digs) <= MAX_STR_DIGITS
  IN  IF ~good THEN [ok |-> FALSE, v |-> IntOf(FALSE, <<"0">>)]
      ELSE [ok |-> TRUE, v |-> IntOf(sgn /\ Head(t) = "-", digs)]

----------------------------------------------------------------------------
(* Natural numbers of any size, as limbs in base 2^15, least significant   *)
(* first, with no leading zero limb: <<>> is 0, <<0, 1>> is 32768.         *)

Base == 2^15

\* drop the zero limbs at the most significant end
RECURSIVE BNorm(_)
BNorm(a) ==
  IF a # <<>> /\ a[Len(a)] = 0 THEN BNorm(SubSeq(a, 1, Len(a) - 1)) ELSE a

RECURSIVE BAddC(_, _, _)
BAddC(a, b, c) ==
  IF a = <<>> /\ b = <<>> THEN (IF c = 0 THEN <<>> ELSE <<c>>)
  ELSE LET x == IF a = <<>> THEN 0 ELSE Head(a)
           y == IF b = <<>> THEN 0 ELSE Head(b)
           t == x + y + c
       IN  <<t % Base>> \o BAddC(IF a = <<>> THEN a ELSE Tail(a),
                                   IF b = <<>> THEN b ELSE Tail(b), t \div Base)

\* a + b
BAdd(a, b) == BAddC(a, b, 0)

\* a < b
BLess(a, b) ==
  IF Len(a) # Len(b) THEN Len(a) < Len(b)
  ELSE \E i \in 1..Len(a) :
          /\ a[i] < b[i]
          /\ \A j \in (i + 1)..Len(a) : a[j] = b[j]

\* the number of bits of an int n >= 0
RECURSIVE IntBitLen(_)
IntBitLen(n) == IF n = 0 THEN 0 ELSE 1 + IntBitLen(n \div 2)

\* the number of bits of a
BitLen(a) == IF a = <<>> THEN 0 ELSE 15 * (Len(a) - 1) + IntBitLen(a[Len(a)])

\* bit i of a, the least significant being bit 1
BBit(a, i) ==
  LET l == ((i - 1) \div 15) + 1
  IN  IF l > Len(a) THEN 0 ELSE (a[l] \div 2^((i - 1) % 15)) % 2

\* a * 2^k
BShl(a, k) ==
  LET r == k % 15
      w == [i \in 1..(Len(a) + 1) |->
              ((IF i <= Len(a) THEN (a[i] * 2^r) % Base ELSE 0)
               + (IF i > 1 THEN (a[i - 1] * 2^r) \div Base ELSE 0))]
  IN  IF a = <<>> THEN a ELSE [i \in 1..(k \div 15) |-> 0] \o BNorm(w)

\* a \div 2^k
BShr(a, k) ==
  LET r == k % 15
      t == SubSeq(a, (k \div 15) + 1, Len(a))
  IN  BNorm([i \in 1..Len(t) |->
               (t[i] \div 2^r)
               + (IF i < Len(t) THEN (t[i + 1] % 2^r) * 2^(15 - r) ELSE 0)])

\* a % 2^k # 0
BLowBits(a, k) ==
  \/ \E i \in 1..(k \div 15) : i <= Len(a) /\ a[i] # 0
  \/ (k \div 15) + 1 <= Len(a) /\ a[(k \div 15) + 1] % 2^(k % 15) # 0

\* the number of zero bits at the least significant end of an int n > 0
RECURSIVE IntTrailingZeros(_)
IntTrailingZeros(n) == IF n % 2 = 1 THEN 0 ELSE 1 + IntTrailingZeros(n \div 2)

\* the number of zero bits at the least significant end of a # 0
RECURSIVE BTrailingZeros(_)
BTrailingZeros(a) ==
  IF Head(a) = 0 THEN 15 + BTrailingZeros(Tail(a)) ELSE IntTrailingZeros(Head(a))

\* a * c + d, for ints 0 <= c, d < 2^15 (c * 2^15 + d must fit an int)
RECURSIVE BMulAdd(_, _, _)
BMulAdd(a, c, d) ==
  IF a = <<>> THEN (IF d = 0 THEN <<>> ELSE <<d>>)
  ELSE LET t == Head(a) * c + d
       IN  <<t % Base>> \o BMulAdd(Tail(a), c, t \div Base)

\* the value of a sequence of decimal digits
RECURSIVE BFromDigits(_)
BFromDigits(s) ==
  IF s = <<>> THEN <<>>
  ELSE BNorm(BMulAdd(BFromDigits(SubSeq(s, 1, Len(s) - 1)), 10, DigitVal(s[Len(s)])))

\* a * 10^k
RECURSIVE BMulPow10(_, _)
BMulPow10(a, k) ==
  IF k = 0 THEN a
  ELSE IF k >= 4 THEN BMulPow10(BNorm(BMulAdd(a, 10000, 0)), k - 4)
  ELSE BMulPow10(BNorm(BMulAdd(a, 10, 0)), k - 1)

\* short division by an int 0 < c < 2^15, from limb i down with remainder r
\* carried in: [q, r]
RECURSIVE BDivSmallStep(_, _, _, _)
BDivSmallStep(a, c, i, r) ==
  IF i = 0 THEN [q |-> <<>>, r |-> r]
  ELSE LET t    == r * Base + a[i]
           rest == BDivSmallStep(a, c, i - 1, t % c)
       IN  [q |-> rest.q \o <<t \div c>>, r |-> rest.r]

\* a \div c and a % c
BDivSmall(a, c) ==
  LET x == BDivSmallStep(a, c, Len(a), 0) IN [q |-> BNorm(x.q), r |-> x.r]

\* a \div 10^k, and whether a % 10^k # 0
RECURSIVE BDivPow10(_, _)
BDivPow10(a, k) ==
  IF k = 0 THEN [q |-> a, inexact |-> FALSE]
  ELSE LET x == IF k >= 4 THEN BDivSmall(a, 10000) ELSE BDivSmall(a, 10)
           y == BDivPow10(x.q, IF k >= 4 THEN k - 4 ELSE k - 1)
       IN  [q |-> y.q, inexact |-> y.inexact \/ x.r # 0]

----------------------------------------------------------------------------
(* float: IEEE 754 binary64 with round-to-nearest, ties-to-even.           *)

FZero == [k |-> "fin", neg |-> FALSE, m |-> <<>>, e |-> 0]

FInf == [k |-> "inf", neg |-> FALSE, m |-> <<>>, e |-> 0]

FNan == [k |-> "nan", neg |-> FALSE, m |-> <<>>, e |-> 0]

FNeg(f) == [f EXCEPT !.neg = ~f.neg]

\* the finite float m * 2^e, m made odd
FCanon(m, e) ==
  IF m = <<>> THEN FZero
  ELSE LET z == BTrailingZeros(m)
       IN  [k |-> "fin", neg |-> FALSE, m |-> BShr(m, z), e |-> e + z]

\* The binary64 nearest to the exact value m * 2^e (m >= 0): 53 significant
\* bits, no bit below 2^-1074, ties to even, infinity from 2^1024 on.
FRound(m, e) ==
  IF m = <<>> THEN FZero
  ELSE LET q    == IF e + BitLen(m) - 53 > -1074 THEN e + BitLen(m) - 53 ELSE -1074
           d    == q - e
           kept == BShr(m, d)
           half == BBit(m, d) = 1
           low  == BLowBits(m, d - 1)
           odd  == BBit(kept, 1) = 1
           up   == half /\ (low \/ odd)
           r    == IF up THEN BAdd(kept, <<1>>) ELSE kept
       IN  IF d <= 0 THEN
             (IF e + BitLen(m) > 1024 THEN FInf ELSE FCanon(m, e))
           ELSE IF q + BitLen(r) > 1024 THEN FInf
           ELSE FCanon(r, q)

\* The binary64 nearest to the exact value (m + x) * 2^e, where 0 < x < 1
\* when inexact and x = 0 otherwise: x is one more bit below those of m.
FRoundSticky(m, inexact, e) ==
  IF inexact THEN FRound(BAdd(BShl(m, 1), <<1>>), e - 1) ELSE FRound(m, e)

\* the amount by which a numerator of n bits is scaled for its quotient by
\* a divisor of d bits to have at least 55 bits
QuotShift(n, d) == IF 56 + d - n > 0 THEN 56 + d - n ELSE 0

\* a + b of two floats that are not negative
FAdd(a, b) ==
  IF a.k = "nan" \/ b.k = "nan" THEN FNan
  ELSE IF a.k = "inf" \/ b.k = "inf" THEN FInf
  ELSE IF a.m = <<>> THEN b
  ELSE IF b.m = <<>> THEN a
  ELSE LET e == IF a.e < b.e THEN a.e ELSE b.e
       IN  FRound(BAdd(BShl(a.m, a.e - e), BShl(b.m, b.e - e)), e)

\* a / n of a float that is not negative and an int 0 < n < 2^15
FDivInt(a, n) ==
  IF a.k # "fin" THEN a
  ELSE LET s == QuotShift(BitLen(a.m), IntBitLen(n))
           x == BDivSmall(BShl(a.m, s), n)
       IN  FRoundSticky(x.q, x.r # 0, a.e - s)

\* a < b of two floats; every comparison with nan is false
FLess(a, b) ==
  IF a.k = "nan" \/ b.k = "nan" THEN FALSE
  ELSE IF a.neg # b.neg THEN a.neg /\ ~(a.k = "fin" /\ a.m = <<>> /\ b.k = "fin" /\ b.m = <<>>)
  ELSE LET x == IF a.neg THEN b ELSE a      \* compare magnitudes x < y
           y == IF a.neg THEN a ELSE b
       IN  IF x.k = "inf" THEN FALSE
           ELSE IF y.k = "inf" THEN TRUE
           ELSE IF y.m = <<>> THEN FALSE
           ELSE IF x.m = <<>> THEN TRUE
           ELSE LET e == IF x.e < y.e THEN x.e ELSE y.e
                IN  BLess(BShl(x.m, x.e - e), BShl(y.m, y.e - e))

\* a <= 0
FLeZero(a) == a.k # "nan" /\ (a.neg \/ (a.k = "fin" /\ a.m = <<>>))

\* float(s), the steps of the parse, last first.

PyFloatBad == [ok |-> FALSE, v |-> FZero]

PyFloatResult(mag, neg) == [ok |-> TRUE, v |-> IF neg THEN FNeg(mag) ELSE mag]

\* the quotient n * 2^sh / 10^(-x), rounded
PyFloatQuot(quot, sh) == FRoundSticky(quot.q, quot.inexact, -sh)

PyFloatScaled(n, x, sh) == PyFloatQuot(BDivPow10(BShl(n, sh), -x), sh)

\* the float nearest to n * 10^x: inf from 10^311 on, and 0 below 2^-1076,
\* which n * 10^x is when n < 2^(-3x - 1076)
PyFloatMag(n, x) ==
  IF n = <<>> THEN FZero
  ELSE IF x > 310 THEN FInf
  ELSE IF x >= 0 THEN FRound(BMulPow10(n, x), 0)
  ELSE IF -x > ((BitLen(n) + 1076) \div 3) + 1 THEN FZero
  ELSE PyFloatScaled(n, x, QuotShift(BitLen(n), 4 * (-x)))

\* the exponent of the literal; one of more than nine digits is beyond
\* every float and counts as 10^9
PyFloatExp(hasExp, eneg, edig) ==
  IF ~hasExp THEN 0
  ELSE IF Len(NoLeadingZeros(edig)) > 9 THEN (IF eneg THEN -(10^9) ELSE 10^9)
  ELSE IF eneg THEN -DigitsToInt(NoLeadingZeros(edig))
  ELSE DigitsToInt(NoLeadingZeros(edig))

\* integer digits, fraction digits and exponent digits
PyFloatDigits(ipart, fpart, hasExp, eneg, edig, neg) ==
  IF \/ ipart \o fpart = <<>>
     \/ ~AllDigits(ipart \o fpart)
     \/ hasExp /\ (edig = <<>> \/ ~AllDigits(edig))
    THEN PyFloatBad
  ELSE PyFloatResult(
         PyFloatMag(BFromDigits(ipart \o fpart),
                    PyFloatExp(hasExp, eneg, edig) - Len(fpart)),
         neg)

\* the mantissa with its point at pp, the exponent with its sign
PyFloatPoint(mant, pp, hasExp, esgn, expo, neg) ==
  PyFloatDigits(SubSeq(mant, 1, pp - 1), SubSeq(mant, pp + 1, Len(mant)), hasExp,
                esgn /\ Head(expo) = "-", IF esgn THEN Tail(expo) ELSE expo, neg)

PyFloatParts(mant, hasExp, expo, neg) ==
  LET ppos == {i \in 1..Len(mant) : mant[i] = "."}
  IN  IF Cardinality(ppos) > 1 THEN PyFloatBad
      ELSE PyFloatPoint(mant, IF ppos = {} THEN Len(mant) + 1 ELSE CHOOSE i \in ppos : TRUE,
                        hasExp, expo # <<>> /\ Head(expo) \in {"+", "-"}, expo, neg)

\* the literal split at its first e or E, at ep
PyFloatSplit(lit, ep, neg) ==
  PyFloatParts(SubSeq(lit, 1, ep - 1), ep <= Len(lit), SubSeq(lit, ep + 1, Len(lit)), neg)

PyFloatLiteral(lit, neg) ==
  LET epos == {i \in 1..Len(lit) : lit[i] \in {"e", "E"}}
  IN  PyFloatSplit(lit, IF epos = {} THEN Len(lit) + 1
                        ELSE CHOOSE i \in epos : \A j \in epos : i <= j, neg)

PyFloatBody(body, word, neg) ==
  IF word \in {<<"i","n","f">>, <<"i","n","f","i","n","i","t","y">>}
    THEN PyFloatResult(FInf, neg)
  ELSE IF word = <<"n","a","n">> THEN [ok |-> TRUE, v |-> FNan]
  ELSE IF ~UnderscoresOk(body) THEN PyFloatBad
  ELSE PyFloatLiteral(RemoveChar(body, "_"), neg)

PyFloatSign(t, sgn) ==
  PyFloatBody(IF sgn THEN Tail(t) ELSE t, Lower(IF sgn THEN Tail(t) ELSE t),
              sgn /\ Head(t) = "-")

PyFloatSigned(t) == PyFloatSign(t, t # <<>> /\ Head(t) \in {"+", "-"})

\* float(s) of a str: [ok, v]. Surrounding whitespace is dropped; one sign;
\* then inf, infinity or nan in any case, or a decimal literal: digits with
\* an optional point and an optional exponent, single underscores allowed
\* between digits.
PyFloat(s) == PyFloatSigned(Strip(s))

----------------------------------------------------------------------------
(* Dates: datetime.strptime and datetime.strftime with DATE_FORMAT.        *)

IsLeap(y) == y % 4 = 0 /\ (y % 100 # 0 \/ y % 400 = 0)

DaysInMonth(y, m) ==
  IF m = 2 THEN (IF IsLeap(y) THEN 29 ELSE 28)
  ELSE IF m \in {4, 6, 9, 11} THEN 30 ELSE 31

\* %m matches 1[0-2] | 0[1-9] | [1-9]
MatchesMonth(s) ==
  \/ Len(s) = 2 /\ s[1] = "1" /\ s[2] \in {"0", "1", "2"}
  \/ Len(s) = 2 /\ s[1] = "0" /\ IsDigit(s[2]) /\ s[2] # "0"
  \/ Len(s) = 1 /\ IsDigit(s[1]) /\ s[1] # "0"

\* %d matches 3[01] | [12]\d | 0[1-9] | [1-9] | " "[1-9]
MatchesDay(s) ==
  \/ Len(s) = 2 /\ s[1] = "3" /\ s[2] \in {"0", "1"}
  \/ Len(s) = 2 /\ s[1] \in {"1", "2"} /\ IsDigit(s[2])
  \/ Len(s) = 2 /\ s[1] \in {"0", " "} /\ IsDigit(s[2]) /\ s[2] # "0"
  \/ Len(s) = 1 /\ IsDigit(s[1]) /\ s[1] # "0"

\* datetime.strptime(s, "%Y-%m-%d"): [ok, y, m, d]. %Y is exactly four
\* digits; the whole string must be consumed; the fields must name a day of
\* the calendar, with the year at least 1.
Strptime(s) ==
  LET dash == {i \in 6..Len(s) : s[i] = "-"}
      j    == IF dash = {} THEN 0 ELSE CHOOSE i \in dash : \A k \in dash : i <= k
      ys   == SubSeq(s, 1, 4)
      ms   == SubSeq(s, 6, j - 1)
      ds   == SubSeq(s, j + 1, Len(s))
      y    == DigitsToInt(ys)
      m    == DigitsToInt(ms)
      d    == DigitsToInt(LStrip(ds))
      good == /\ Len(s) >= 5 /\ AllDigits(ys) /\ s[5] = "-"
              /\ j # 0 /\ MatchesMonth(ms) /\ MatchesDay(ds)
              /\ y >= 1 /\ d <= DaysInMonth(y, m)
  IN  IF good THEN [ok |-> TRUE, y |-> y, m |-> m, d |-> d]
      ELSE [ok |-> FALSE, y |-> 0, m |-> 0, d |-> 0]

\* dt.strftime("%Y-%m-%d"): the C library's strftime writes %m and %d with
\* two digits and %Y as the plain decimal year, which has fewer than four
\* digits before the year 1000.
Strftime(dt) ==
  NatToStr(dt.y) \o <<"-">> \o ZeroPad(NatToStr(dt.m), 2)
                 \o <<"-">> \o ZeroPad(NatToStr(dt.d), 2)

----------------------------------------------------------------------------
(* Python values and dicts.                                                *)

VStr(s) == [t |-> "str", s |-> s, f |-> FZero]

VNone == [t |-> "none", s |-> <<>>, f |-> FZero]

VFloat(f) == [t |-> "float", s |-> <<>>, f |-> f]

\* a list of one-character strings
VList(s) == [t |-> "list", s |-> s, f |-> FZero]

\* bool(v)
Truthy(v) ==
  CASE v.t = "str"   -> v.s # <<>>
    [] v.t = "none"  -> FALSE
    [] v.t = "float" -> ~(v.f.k = "fin" /\ v.f.m = <<>>)
    [] v.t = "list"  -> v.s # <<>>

\* Option values: <<>> is None, <<x>> is x
None == <<>>

Some(x) == <<x>>

\* dicts keep their insertion order: sequences of <<key, value>>

EmptyDict == <<>>

Values(d) == [i \in 1..Len(d) |-> d[i][2]]

HasKey(d, k) == \E i \in 1..Len(d) : d[i][1] = k

Get(d, k) == d[CHOOSE i \in 1..Len(d) : d[i][1] = k][2]

\* d[k] = v: a new key goes to the end
Put(d, k, v) ==
  IF HasKey(d, k) THEN [i \in 1..Len(d) |-> IF d[i][1] = k THEN <<k, v>> ELSE d[i]]
  ELSE Append(d, <<k, v>>)

\* d[k] of a defaultdict with the default value zero
GetDefault(d, k, zero) == IF HasKey(d, k) THEN Get(d, k) ELSE zero

\* the set of the keys of d
KeySet(d) == {d[i][1] : i \in 1..Len(d)}

----------------------------------------------------------------------------
(* Constants.                                                              *)

VALID_DEPARTMENTS ==
  { <<"E","l","e","c","t","r","o","n","i","c","s">>,
    <<"C","l","o","t","h","i","n","g">>,
    <<"H","o","m","e">>,
    <<"S","p","o","r","t","s">> }

ERR_EMPLOYEE_ID == "employee_id must be a positive integer"

ERR_EMPLOYEE_NAME == "employee_name cannot be empty"

\* The iteration order of the set VALID_DEPARTMENTS: it follows the hashes
\* of the four str, which are salted anew in each process, so it is fixed
\* during a run and any of the orders from one run to the next.
VARIABLE hash_order

DeptNames == {"Electronics", "Clothing", "Home", "Sports"}

HashOrders ==
  {o \in [1..4 -> DeptNames] : \A i, j \in 1..4 : o[i] = o[j] => i = j}

\* ', '.join(VALID_DEPARTMENTS)
JoinDepartments ==
  hash_order[1] \o ", " \o hash_order[2] \o ", " \o hash_order[3] \o ", " \o hash_order[4]

ERR_DEPARTMENT == "department must be one of: " \o JoinDepartments

ERR_SALES_AMOUNT == "sales_amount must be a positive number"

ERR_DATE == "date must be in YYYY-MM-DD format"

ERR_UNEXPECTED == "unexpected error: "

FieldErrors ==
  {ERR_EMPLOYEE_ID, ERR_EMPLOYEE_NAME, ERR_DEPARTMENT, ERR_SALES_AMOUNT, ERR_DATE}

----------------------------------------------------------------------------
(* clean_and_validate_row.                                                 *)

\* what a return or a raise of the function body leaves: the returned pair
\* (rec, err), or the exception raised (exc, its str())
Return(rec, err) == [rec |-> rec, err |-> err, exc |-> None]

Raise(msg) == [rec |-> None, err |-> None, exc |-> Some(msg)]

\* v has no strip(): (v or "") is v for a truthy v
NoStrip(v) == Truthy(v) /\ v.t # "str"

\* (v or "").strip()
StripValue(v) == VStr(IF Truthy(v) THEN Strip(v.s) ELSE <<>>)

\* {k: (v or "").strip() for k, v in row.items()}, for values that strip
StripAll(row) == [i \in 1..Len(row) |-> <<row[i][1], StripValue(row[i][2])>>]

\* the names of the columns, as str
Key ==
  [employee_id   |-> <<"e", "m", "p", "l", "o", "y", "e", "e", "_", "i", "d">>,
   employee_name |-> <<"e", "m", "p", "l", "o", "y", "e", "e", "_", "n", "a", "m", "e">>,
   department    |-> <<"d", "e", "p", "a", "r", "t", "m", "e", "n", "t">>,
   sales_amount  |-> <<"s", "a", "l", "e", "s", "_", "a", "m", "o", "u", "n", "t">>,
   date          |-> <<"d", "a", "t", "e">>,
   notes         |-> <<"n", "o", "t", "e", "s">>]

\* the key None: no str, "None" being no character
NoKey == <<"None">>

KeyError(k) == "'" \o k \o "'"

AttributeError(v) == "'" \o v.t \o "' object has no attribute 'strip'"

\* The steps of the body of the outer try, last first; each takes the dict
\* cleaned as the steps before it left it.

\* cleaned["date"] = dt.strftime(DATE_FORMAT); return cleaned, None
DateParsed(cleaned, dt) ==
  IF dt.ok THEN Return(Some(Put(cleaned, Key.date, VStr(Strftime(dt)))), None)
  ELSE Return(None, Some(ERR_DATE))

\* the date step; the KeyError of a missing key is caught by the except of
\* the step
CheckDate(cleaned) ==
  IF HasKey(cleaned, Key.date) THEN DateParsed(cleaned, Strptime(Get(cleaned, Key.date).s))
  ELSE Return(None, Some(ERR_DATE))

\* if amt <= 0: raise ValueError; cleaned["sales_amount"] = amt
AmountParsed(cleaned, p) ==
  IF p.ok /\ ~FLeZero(p.v)
    THEN CheckDate(Put(cleaned, Key.sales_amount, VFloat(p.v)))
  ELSE Return(None, Some(ERR_SALES_AMOUNT))

\* the sales_amount step; the lookup stands before the try of the step
CheckSalesAmount(cleaned) ==
  IF ~HasKey(cleaned, Key.sales_amount) THEN Raise(KeyError("sales_amount"))
  ELSE AmountParsed(cleaned,
         PyFloat(Strip(RemoveChar(RemoveChar(Get(cleaned, Key.sales_amount).s, "$"), ","))))

\* if dept not in VALID_DEPARTMENTS; cleaned["department"] = dept
DeptTitled(cleaned, dept) ==
  IF dept \notin VALID_DEPARTMENTS THEN Return(None, Some(ERR_DEPARTMENT))
  ELSE CheckSalesAmount(Put(cleaned, Key.department, VStr(dept)))

\* the department step
CheckDepartment(cleaned) ==
  IF ~HasKey(cleaned, Key.department) THEN Raise(KeyError("department"))
  ELSE DeptTitled(cleaned, Title(Get(cleaned, Key.department).s))

\* the employee_name step
CheckEmployeeName(cleaned) ==
  IF ~HasKey(cleaned, Key.employee_name) THEN Raise(KeyError("employee_name"))
  ELSE IF Get(cleaned, Key.employee_name).s = <<>> THEN Return(None, Some(ERR_EMPLOYEE_NAME))
  ELSE CheckDepartment(cleaned)

\* if eid <= 0: raise ValueError; cleaned["employee_id"] = str(eid)
IdParsed(cleaned, p) ==
  IF p.ok /\ ~IntLeZero(p.v)
    THEN CheckEmployeeName(Put(cleaned, Key.employee_id, VStr(IntToStr(p.v))))
  ELSE Return(None, Some(ERR_EMPLOYEE_ID))

\* the employee_id step; the KeyError of a missing key is caught by the
\* except of the step
CheckEmployeeId(cleaned) ==
  IF HasKey(cleaned, Key.employee_id)
    THEN IdParsed(cleaned, PyInt(Get(cleaned, Key.employee_id).s))
  ELSE Return(None, Some(ERR_EMPLOYEE_ID))

\* the positions of the row, in its order, whose value has no strip()
NoStripAt(row) == {i \in 1..Len(row) : NoStrip(row[i][2])}

\* the first value of the row, in its order, that has no strip()
FirstNoStrip(row, at) == row[CHOOSE i \in at : \A j \in at : i <= j][2]

\* the comprehension raises at the first value that has no strip()
Stripped(row, at) ==
  IF at # {} THEN Raise(AttributeError(FirstNoStrip(row, at)))
  ELSE CheckEmployeeId(StripAll(row))

\* the body of the outer try
ValidateBody(row) == Stripped(row, NoStripAt(row))

\* except Exception as e: return None, f"unexpected error: {str(e)}"
OuterExcept(b) ==
  IF b.exc # None THEN Return(None, Some(ERR_UNEXPECTED \o b.exc[1])) ELSE b

\* clean_and_validate_row(row, line): [rec, err, exc]
clean_and_validate_row(row, line) == OuterExcept(ValidateBody(row))

----------------------------------------------------------------------------
Reverse(a) == [i \in 1..Len(a) |-> a[Len(a) + 1 - i]]

----------------------------------------------------------------------------
(* sorted(items, key=lambda x: x[1], reverse=True) and                     *)
(* rows.sort(key=..., reverse=True), as list.sort of CPython 3.11 does it: *)
(* the list is reversed, sorted ascending and reversed again. The          *)
(* ascending sort cuts the list into runs, each a natural run (reversed    *)
(* when strictly descending) lengthened to minrun items by binary          *)
(* insertion, and merges the runs in the order the powersort policy gives, *)
(* each merge trimming, then taking items one at a time or in gallops. A   *)
(* list of fewer than 64 items is one run. The result is a function of the *)
(* comparisons made, so the order of the comparisons is kept: with nan     *)
(* keys < is no order. The items are <<key, float>> pairs, compared by the *)
(* float alone with <.                                                     *)

ItemLess(x, y) == FLess(x[2], y[2])

Front(s) == SubSeq(s, 1, Len(s) - 1)

Last(s) == s[Len(s)]

\* a with the items after the first base replaced by those of seg
Patch(a, base, seg) ==
  SubSeq(a, 1, base) \o seg \o SubSeq(a, base + Len(seg) + 1, Len(a))

\* merge_compute_minrun: n itself below 64, else the six leading bits of n,
\* one more when a bit below them is set
RECURSIVE MinRun(_, _)
MinRun(n, r) ==
  IF n >= 64 THEN MinRun(n \div 2, IF n % 2 = 1 THEN 1 ELSE r)
  ELSE n + r

merge_compute_minrun(n) == MinRun(n, 0)

\* count_run: [n, desc]. The run that starts a[1], a[2] ends at the first k
\* whose next item does not continue it; RunEnd looks for it in lo..hi and
\* gives hi + 1 when there is none
RECURSIVE RunEnd(_, _, _, _)
RunEnd(a, desc, lo, hi) ==
  IF lo = hi
    THEN IF lo = Len(a) \/ ~(ItemLess(a[lo + 1], a[lo]) <=> desc) THEN lo ELSE lo + 1
  ELSE IF RunEnd(a, desc, lo, (lo + hi) \div 2) <= (lo + hi) \div 2
    THEN RunEnd(a, desc, lo, (lo + hi) \div 2)
  ELSE RunEnd(a, desc, ((lo + hi) \div 2) + 1, hi)

CountRun(a) ==
  IF Len(a) = 1 THEN [n |-> 1, desc |-> FALSE]
  ELSE [n |-> RunEnd(a, ItemLess(a[2], a[1]), 2, Len(a)), desc |-> ItemLess(a[2], a[1])]

\* the place, among the first r items of a, where binarysort puts pivot:
\* l and r count the items before the place and are 0-based as in the C code
RECURSIVE BinaryPlace(_, _, _, _)
BinaryPlace(a, pivot, l, r) ==
  IF l >= r THEN l
  ELSE LET p == l + ((r - l) \div 2)
       IN  IF ItemLess(pivot, a[p + 1]) THEN BinaryPlace(a, pivot, l, p)
           ELSE BinaryPlace(a, pivot, p + 1, r)

\* binarysort: a[1..start-1] is sorted; put a[start], a[start+1], ... in place
RECURSIVE BinarySort(_, _)
BinarySort(a, start) ==
  IF start > Len(a) THEN a
  ELSE LET l == BinaryPlace(a, a[start], 0, start - 1)
           b == SubSeq(a, 1, l) \o <<a[start]>> \o SubSeq(a, l + 1, start - 1)
                  \o SubSeq(a, start + 1, Len(a))
       IN  BinarySort(b, start + 1)

\* gallop_left (right FALSE) and gallop_right (right TRUE): how many items
\* of a stand before the place of key, looked for around a[hint + 1] at the
\* offsets 1, 3, 7, ... and then by binary search. hint, the offsets and
\* the bounds of the search are 0-based as in the C code.

\* x stands before the place: x < key in gallop_left, not key < x in
\* gallop_right
Before(right, x, key) == IF right THEN ~ItemLess(key, x) ELSE ItemLess(x, key)

RECURSIVE GallopUp(_, _, _, _, _, _, _)
GallopUp(right, key, a, hint, lastofs, ofs, maxofs) ==
  IF ofs < maxofs /\ Before(right, a[hint + ofs + 1], key)
    THEN GallopUp(right, key, a, hint, ofs, 2 * ofs + 1, maxofs)
  ELSE [lastofs |-> lastofs, ofs |-> IF ofs > maxofs THEN maxofs ELSE ofs]

RECURSIVE GallopDown(_, _, _, _, _, _, _)
GallopDown(right, key, a, hint, lastofs, ofs, maxofs) ==
  IF ofs < maxofs /\ ~Before(right, a[hint - ofs + 1], key)
    THEN GallopDown(right, key, a, hint, ofs, 2 * ofs + 1, maxofs)
  ELSE [lastofs |-> lastofs, ofs |-> IF ofs > maxofs THEN maxofs ELSE ofs]

RECURSIVE GallopSearch(_, _, _, _, _)
GallopSearch(right, key, a, lastofs, ofs) ==
  IF lastofs >= ofs THEN ofs
  ELSE IF Before(right, a[lastofs + ((ofs - lastofs) \div 2) + 1], key)
    THEN GallopSearch(right, key, a, lastofs + ((ofs - lastofs) \div 2) + 1, ofs)
  ELSE GallopSearch(right, key, a, lastofs, lastofs + ((ofs - lastofs) \div 2))

GallopFrom(right, key, a, hint, up, g) ==
  IF up THEN GallopSearch(right, key, a, g.lastofs + hint + 1, g.ofs + hint)
  ELSE GallopSearch(right, key, a, hint - g.ofs + 1, hint - g.lastofs)

Gallop(right, key, a, hint) ==
  IF Before(right, a[hint + 1], key)
    THEN GallopFrom(right, key, a, hint, TRUE,
                    GallopUp(right, key, a, hint, 0, 1, Len(a) - hint))
  ELSE GallopFrom(right, key, a, hint, FALSE,
                  GallopDown(right, key, a, hint, 0, 1, hint + 1))

gallop_left(key, a, hint) == Gallop(FALSE, key, a, hint)

gallop_right(key, a, hint) == Gallop(TRUE, key, a, hint)

MIN_GALLOP == 7

\* A merge in progress: A and B are what is left of the two runs, out the
\* items already in place, mg the min_gallop, acount and bcount how many
\* times in a row A and B won. pc is the loop the merge is in.
Taking(pc, A, B, out, mg, acount, bcount) ==
  [pc |-> pc, A |-> A, B |-> B, out |-> out, mg |-> mg,
   acount |-> acount, bcount |-> bcount]

\* a finished merge: the merged items and the min_gallop it leaves
Merged(seq, mg) == [pc |-> "done", seq |-> seq, mg |-> mg]

\* merge_lo fills from the front. One turn of its loop that takes one item:
MergeLoPlain(A, B, out, mg, acount, bcount) ==
  IF ItemLess(B[1], A[1])
    THEN IF Len(B) = 1 THEN Merged(out \o B \o A, mg)
         ELSE IF bcount + 1 >= mg
           THEN Taking("lo gallop", A, Tail(B), Append(out, B[1]), mg + 1, 0, 0)
         ELSE Taking("lo", A, Tail(B), Append(out, B[1]), mg, 0, bcount + 1)
  ELSE IF Len(A) = 2 THEN Merged(Append(out, A[1]) \o B \o Tail(A), mg)
  ELSE IF acount + 1 >= mg
    THEN Taking("lo gallop", Tail(A), B, Append(out, A[1]), mg + 1, 0, 0)
  ELSE Taking("lo", Tail(A), B, Append(out, A[1]), mg, acount + 1, 0)

\* One turn of its galloping loop, written from its end to its start.
\* The k items of B before A[1] are in out: A[1] is taken
MergeLoTookB(A, B, out, mg, acount, k) ==
  IF B = <<>> THEN Merged(out \o A, mg)
  ELSE IF Len(A) = 2 THEN Merged(Append(out, A[1]) \o B \o Tail(A), mg)
  ELSE IF acount >= MIN_GALLOP \/ k >= MIN_GALLOP
    THEN Taking("lo gallop", Tail(A), B, Append(out, A[1]), mg, 0, 0)
  ELSE Taking("lo", Tail(A), B, Append(out, A[1]), mg + 1, 0, 0)

MergeLoSplitB(A, B, out, mg, acount, k) ==
  MergeLoTookB(A, SubSeq(B, k + 1, Len(B)), out \o SubSeq(B, 1, k), mg, acount, k)

\* the k items of A not after B[1] are in out: B[1] is taken
MergeLoTookA(A, B, out, mg, k) ==
  IF Len(A) = 1 THEN Merged(out \o B \o A, mg)
  ELSE IF A = <<>> THEN Merged(out \o B, mg)
  ELSE IF Len(B) = 1 THEN Merged(out \o B \o A, mg)
  ELSE MergeLoSplitB(A, Tail(B), Append(out, B[1]), mg, k,
                     gallop_left(A[1], Tail(B), 0))

MergeLoSplitA(A, B, out, mg, k) ==
  MergeLoTookA(SubSeq(A, k + 1, Len(A)), B, out \o SubSeq(A, 1, k), mg, k)

MergeLoGallop(A, B, out, mg) ==
  MergeLoSplitA(A, B, out, IF mg > 1 THEN mg - 1 ELSE mg, gallop_right(B[1], A, 0))

\* merge_hi fills from the back: out is the items in place at the end
MergeHiPlain(A, B, out, mg, acount, bcount) ==
  IF ItemLess(Last(B), Last(A))
    THEN IF Len(A) = 1 THEN Merged(B \o A \o out, mg)
         ELSE IF acount + 1 >= mg
           THEN Taking("hi gallop", Front(A), B, <<Last(A)>> \o out, mg + 1, 0, 0)
         ELSE Taking("hi", Front(A), B, <<Last(A)>> \o out, mg, acount + 1, 0)
  ELSE IF Len(B) = 2 THEN Merged(Front(B) \o A \o <<Last(B)>> \o out, mg)
  ELSE IF bcount + 1 >= mg
    THEN Taking("hi gallop", A, Front(B), <<Last(B)>> \o out, mg + 1, 0, 0)
  ELSE Taking("hi", A, Front(B), <<Last(B)>> \o out, mg, 0, bcount + 1)

\* the k items of B not before the last of A are in out: the last of A is
\* taken
MergeHiTookB(A, B, out, mg, acount, k) ==
  IF Len(B) = 1 THEN Merged(B \o A \o out, mg)
  ELSE IF B = <<>> THEN Merged(A \o out, mg)
  ELSE IF Len(A) = 1 THEN Merged(B \o A \o out, mg)
  ELSE IF acount >= MIN_GALLOP \/ k >= MIN_GALLOP
    THEN Taking("hi gallop", Front(A), B, <<Last(A)>> \o out, mg, 0, 0)
  ELSE Taking("hi", Front(A), B, <<Last(A)>> \o out, mg + 1, 0, 0)

MergeHiSplitB(A, B, out, mg, acount, k) ==
  MergeHiTookB(A, SubSeq(B, 1, Len(B) - k),
               SubSeq(B, Len(B) - k + 1, Len(B)) \o out, mg, acount, k)

\* the k items of A after the last of B are in out: the last of B is taken
MergeHiTookA(A, B, out, mg, k) ==
  IF A = <<>> THEN Merged(B \o out, mg)
  ELSE IF Len(B) = 2 THEN Merged(Front(B) \o A \o <<Last(B)>> \o out, mg)
  ELSE MergeHiSplitB(A, Front(B), <<Last(B)>> \o out, mg, k,
                     Len(B) - 1 - gallop_left(Last(A), Front(B), Len(B) - 2))

MergeHiSplitA(A, B, out, mg, k) ==
  MergeHiTookA(SubSeq(A, 1, Len(A) - k), B,
               SubSeq(A, Len(A) - k + 1, Len(A)) \o out, mg, k)

MergeHiGallop(A, B, out, mg) ==
  MergeHiSplitA(A, B, out, IF mg > 1 THEN mg - 1 ELSE mg,
                Len(A) - gallop_right(Last(B), A, Len(A) - 1))

\* one turn of the loop the merge is in
MergeStep(st) ==
  CASE st.pc = "lo" -> MergeLoPlain(st.A, st.B, st.out, st.mg, st.acount, st.bcount)
    [] st.pc = "lo gallop" -> MergeLoGallop(st.A, st.B, st.out, st.mg)
    [] st.pc = "hi" -> MergeHiPlain(st.A, st.B, st.out, st.mg, st.acount, st.bcount)
    [] st.pc = "hi gallop" -> MergeHiGallop(st.A, st.B, st.out, st.mg)

\* up to n turns, stopping when the merge is finished. Every turn puts an
\* item in place, so as many turns as there are items finish the merge
RECURSIVE MergeLoop(_, _)
MergeLoop(st, n) ==
  IF st.pc = "done" THEN st
  ELSE IF n <= 1 THEN MergeStep(st)
  ELSE MergeLoop(MergeLoop(st, n \div 2), n - (n \div 2))

merge_lo(A, B, mg) ==
  IF Len(B) = 1 \/ Len(A) = 1 THEN Merged(B \o A, mg)
  ELSE MergeLoop(Taking("lo", A, Tail(B), <<B[1]>>, mg, 0, 0), Len(A) + Len(B))

merge_hi(A, B, mg) ==
  IF Len(A) = 1 \/ Len(B) = 1 THEN Merged(B \o A, mg)
  ELSE MergeLoop(Taking("hi", Front(A), B, <<Last(A)>>, mg, 0, 0), Len(A) + Len(B))

\* The merge of two neighbouring runs A and B, as merge_at does it: the k
\* items of A not after B[1] and the items of B from place nb on, not before
\* the last of A, are in place already; the rest is merged by merge_lo when A
\* has no more left than B, else by merge_hi.
MergeAround(pre, m, post) == Merged(pre \o m.seq \o post, m.mg)

MergeTrimmed(A, B, mg, k, nb) ==
  IF nb <= 0 THEN Merged(A \o B, mg)
  ELSE MergeAround(SubSeq(A, 1, k),
                   IF Len(A) - k <= nb
                     THEN merge_lo(SubSeq(A, k + 1, Len(A)), SubSeq(B, 1, nb), mg)
                     ELSE merge_hi(SubSeq(A, k + 1, Len(A)), SubSeq(B, 1, nb), mg),
                   SubSeq(B, nb + 1, Len(B)))

MergeTrim(A, B, mg, k) ==
  IF k = Len(A) THEN Merged(A \o B, mg)
  ELSE MergeTrimmed(A, B, mg, k, gallop_left(Last(A), B, Len(B) - 1))

MergeRuns(A, B, mg) == MergeTrim(A, B, mg, gallop_right(B[1], A, 0))

\* The state of a sort: the list a, the stack pending of the runs found, each
\* [base, len, power] with base 0-based, min_gallop mg, and lo, how many
\* items are in runs already.
RunItems(st, i) ==
  SubSeq(st.a, st.pending[i].base + 1, st.pending[i].base + st.pending[i].len)

MergedAt(st, i, m) ==
  [a       |-> Patch(st.a, st.pending[i].base, m.seq),
   pending |-> SubSeq(st.pending, 1, i - 1)
                 \o <<[st.pending[i] EXCEPT !.len = Len(m.seq)]>>
                 \o SubSeq(st.pending, i + 2, Len(st.pending)),
   mg      |-> m.mg,
   lo      |-> st.lo]

\* merge_at: the runs i and i + 1 of the stack become one
merge_at(st, i) ==
  MergedAt(st, i, MergeRuns(RunItems(st, i), RunItems(st, i + 1), st.mg))

\* powerloop: the power of the boundary between two runs; a and b are twice
\* the midpoints of the runs, n the length of the list
RECURSIVE PowerLoop(_, _, _, _)
PowerLoop(a, b, n, result) ==
  IF a >= n THEN PowerLoop(2 * (a - n), 2 * (b - n), n, result + 1)
  ELSE IF b >= n THEN result + 1
  ELSE PowerLoop(2 * a, 2 * b, n, result + 1)

powerloop(s1, n1, n2, n) == PowerLoop(2 * s1 + n1, 2 * s1 + 2 * n1 + n2, n, 0)

\* the runs of a power above that of the new boundary are merged, and the top
\* run gets the power
RECURSIVE CollapseTo(_, _)
CollapseTo(st, power) ==
  IF Len(st.pending) > 1 /\ st.pending[Len(st.pending) - 1].power > power
    THEN CollapseTo(merge_at(st, Len(st.pending) - 1), power)
  ELSE [st EXCEPT !.pending[Len(st.pending)].power = power]

\* found_new_run, when a run of n2 items is found after the top run
found_new_run(st, n2) ==
  IF st.pending = <<>> THEN st
  ELSE CollapseTo(st, powerloop(Last(st.pending).base, Last(st.pending).len,
                                n2, Len(st.a)))

\* merge_force_collapse: of the last three runs the two that leave the
\* shorter neighbour out are merged, until one run is left
RECURSIVE merge_force_collapse(_)
merge_force_collapse(st) ==
  IF Len(st.pending) < 2 THEN st
  ELSE IF Len(st.pending) > 2
          /\ st.pending[Len(st.pending) - 2].len < Last(st.pending).len
    THEN merge_force_collapse(merge_at(st, Len(st.pending) - 2))
  ELSE merge_force_collapse(merge_at(st, Len(st.pending) - 1))

\* One turn of the loop of list.sort: the run at lo is found, reversed when
\* descending, lengthened to minrun items (or to the end of the list) by
\* binarysort, and pushed.
RunSorted(slice, run) ==
  BinarySort(IF run.desc
               THEN Reverse(SubSeq(slice, 1, run.n)) \o SubSeq(slice, run.n + 1, Len(slice))
               ELSE slice,
             run.n + 1)

RunLen(run, minrun, nremaining) ==
  IF run.n >= minrun THEN run.n
  ELSE IF nremaining <= minrun THEN nremaining ELSE minrun

RunPushed(st, len) ==
  [st EXCEPT !.pending = Append(st.pending,
                                [base |-> st.lo, len |-> len, power |-> 0]),
             !.lo = st.lo + len]

RunFound(st, run, len) ==
  RunPushed(found_new_run([st EXCEPT !.a = Patch(st.a, st.lo,
                             RunSorted(SubSeq(st.a, st.lo + 1, st.lo + len), run))],
                          len),
            len)

RunCounted(st, minrun, run) ==
  RunFound(st, run, RunLen(run, minrun, Len(st.a) - st.lo))

RunAt(st, minrun) == RunCounted(st, minrun, CountRun(SubSeq(st.a, st.lo + 1, Len(st.a))))

\* up to n turns, stopping when the whole list is in runs
RECURSIVE SortRuns(_, _, _)
SortRuns(st, minrun, n) ==
  IF st.lo = Len(st.a) THEN st
  ELSE IF n <= 1 THEN RunAt(st, minrun)
  ELSE SortRuns(SortRuns(st, minrun, n \div 2), minrun, n - (n \div 2))

\* list.sort of two items or more, ascending
ListSort(a) ==
  merge_force_collapse(
    SortRuns([a |-> a, pending |-> <<>>, mg |-> MIN_GALLOP, lo |-> 0],
             merge_compute_minrun(Len(a)), Len(a))).a

SortedDescending(items) ==
  IF Len(items) < 2 THEN items
  ELSE Reverse(ListSort(Reverse(items)))

----------------------------------------------------------------------------
(* compute_statistics.                                                     *)

\* min(dates) and max(dates) of a non-empty list of str: the first least,
\* the first greatest
RECURSIVE MinStr(_)
MinStr(ds) ==
  IF Len(ds) = 1 THEN ds[1]
  ELSE LET m == MinStr(SubSeq(ds, 1, Len(ds) - 1))
       IN  IF StrLess(ds[Len(ds)], m) THEN ds[Len(ds)] ELSE m

RECURSIVE MaxStr(_)
MaxStr(ds) ==
  IF Len(ds) = 1 THEN ds[1]
  ELSE LET m == MaxStr(SubSeq(ds, 1, Len(ds) - 1))
       IN  IF StrLess(m, ds[Len(ds)]) THEN ds[Len(ds)] ELSE m

StatsStart ==
  [total_sales |-> FZero, dept_total |-> <<>>, dept_count |-> <<>>,
   emp_total |-> <<>>, dates |-> <<>>]

\* A variant of the body of the loop that keeps the totals of the
\* employees by employee_id.
StatsStepById(acc, r) ==
  [total_sales |-> FAdd(acc.total_sales, Get(r, Key.sales_amount).f),
   dept_total  |-> Put(acc.dept_total, Get(r, Key.department).s,
                       FAdd(GetDefault(acc.dept_total, Get(r, Key.department).s, FZero),
                            Get(r, Key.sales_amount).f)),
   dept_count  |-> Put(acc.dept_count, Get(r, Key.department).s,
                       GetDefault(acc.dept_count, Get(r, Key.department).s, 0) + 1),
   emp_total   |-> Put(acc.emp_total, Get(r, Key.employee_id).s,
                       FAdd(GetDefault(acc.emp_total, Get(r, Key.employee_id).s, FZero),
                            Get(r, Key.sales_amount).f)),
   dates       |-> Append(acc.dates, Get(r, Key.date).s)]

\* the body of the for loop, for one record
StatsStep(acc, r) ==
  LET amt  == Get(r, Key.sales_amount).f
      dept == Get(r, Key.department).s
      name == Get(r, Key.employee_name).s
  IN  [total_sales |-> FAdd(acc.total_sales, amt),
       dept_total  |-> Put(acc.dept_total, dept,
                           FAdd(GetDefault(acc.dept_total, dept, FZero), amt)),
       dept_count  |-> Put(acc.dept_count, dept,
                           GetDefault(acc.dept_count, dept, 0) + 1),
       emp_total   |-> Put(acc.emp_total, name,
                           FAdd(GetDefault(acc.emp_total, name, FZero), amt)),
       dates       |-> Append(acc.dates, Get(r, Key.date).s)]

\* the for loop over the first n records
RECURSIVE StatsLoop(_, _)
StatsLoop(records, n) ==
  IF n = 0 THEN StatsStart ELSE StatsStep(StatsLoop(records, n - 1), records[n])

TO == <<" ", "t", "o", " ">>

NA == <<"N", "/", "A">>

\* compute_statistics(records): the empty dict for no records
compute_statistics(records) ==
  IF records = <<>> THEN EmptyDict
  ELSE LET acc == StatsLoop(records, Len(records))
       IN  [total_sales   |-> acc.total_sales,
            avg_sale      |-> FDivInt(acc.total_sales, Len(records)),
            departments   |-> acc.dept_total,
            dept_counts   |-> acc.dept_count,
            top_employees |-> SubSeq(SortedDescending(acc.emp_total), 1,
                                     IF Len(acc.emp_total) < 3
                                       THEN Len(acc.emp_total) ELSE 3),
            date_range    |-> IF acc.dates # <<>>
                                THEN MinStr(acc.dates) \o TO \o MaxStr(acc.dates)
                                ELSE NA]

----------------------------------------------------------------------------
(* f"{x:.2f}" and the two exports.                                         *)

\* the decimal digits of a bit natural, no leading zeros
RECURSIVE BToStr(_)
BToStr(a) ==
  IF a = <<>> THEN <<"0">>
  ELSE LET x == BDivSmall(a, 10)
       IN  IF x.q = <<>> THEN <<DigitChar(x.r)>>
           ELSE BToStr(x.q) \o <<DigitChar(x.r)>>

\* the exact value m * 2^e in hundredths, rounded half to even
Hundredths(m, e) ==
  LET n == BNorm(BMulAdd(m, 100, 0))
      q == BShr(n, -e)
      up == BBit(n, -e) = 1 /\ (BLowBits(n, -e - 1) \/ BBit(q, 1) = 1)
  IN  IF e >= 0 THEN BShl(n, e)
      ELSE IF up THEN BAdd(q, <<1>>) ELSE q

\* f"{x:.2f}" of a float
Format2f(x) ==
  IF x.k = "nan" THEN <<"n", "a", "n">>
  ELSE IF x.k = "inf" THEN (IF x.neg THEN <<"-">> ELSE <<>>) \o <<"i", "n", "f">>
  ELSE LET ds == ZeroPad(BToStr(Hundredths(x.m, x.e)), 3)
       IN  (IF x.neg THEN <<"-">> ELSE <<>>)
             \o SubSeq(ds, 1, Len(ds) - 2) \o <<".">> \o SubSeq(ds, Len(ds) - 1, Len(ds))

\* fieldnames, of export_cleaned and of the header check
fieldnames ==
  <<Key.employee_id, Key.employee_name, Key.department, Key.sales_amount, Key.date>>

FIELDNAMES == {fieldnames[i] : i \in 1..Len(fieldnames)}

\* f"{r['sales_amount']:.2f}": [ok, s, exc]
FormatAmount(r) ==
  IF ~HasKey(r, Key.sales_amount)
    THEN [ok |-> FALSE, s |-> <<>>, exc |-> "KeyError: 'sales_amount'"]
  ELSE LET v == Get(r, Key.sales_amount)
       IN  CASE v.t = "float" -> [ok |-> TRUE, s |-> Format2f(v.f), exc |-> ""]
             [] v.t = "str"   ->
                  [ok |-> FALSE, s |-> <<>>,
                   exc |-> "ValueError: Unknown format code 'f' for object of type 'str'"]
             [] v.t = "none"  ->
                  [ok |-> FALSE, s |-> <<>>,
                   exc |-> "TypeError: unsupported format string passed to NoneType.__format__"]
             [] v.t = "list"  ->
                  [ok |-> FALSE, s |-> <<>>,
                   exc |-> "TypeError: unsupported format string passed to list.__format__"]

\* rowdict.keys() - self.fieldnames
WrongFields(row) == KeySet(row) \ FIELDNAMES

\* the two hexadecimal digits of a code below 256
HexDigits == <<"0", "1", "2", "3", "4", "5", "6", "7", "8", "9",
               "a", "b", "c", "d", "e", "f">>

Hex2(n) == <<HexDigits[(n \div 16) + 1], HexDigits[(n % 16) + 1]>>

\* the quote repr() puts around a str: the double quote when the str has a
\* single quote and no double quote, else the single quote
ReprQuote(s) ==
  IF (\E i \in 1..Len(s) : s[i] = "'") /\ ~(\E i \in 1..Len(s) : s[i] = "\"")
    THEN "\"" ELSE "'"

\* what repr() writes for the character c between the quotes q
ReprChar(c, q) ==
  IF c = q \/ c = "\\" THEN <<"\\", c>>
  ELSE IF c = "\t" THEN <<"\\", "t">>
  ELSE IF c = "\n" THEN <<"\\", "n">>
  ELSE IF c = "\r" THEN <<"\\", "r">>
  ELSE IF Ord(c) < 32 \/ Ord(c) = 127 THEN <<"\\", "x">> \o Hex2(Ord(c))
  ELSE <<c>>

RECURSIVE ReprChars(_, _)
ReprChars(s, q) ==
  IF s = <<>> THEN <<>> ELSE ReprChar(Head(s), q) \o ReprChars(Tail(s), q)

\* repr(s) of a str
StrRepr(s) == <<ReprQuote(s)>> \o ReprChars(s, ReprQuote(s)) \o <<ReprQuote(s)>>

\* repr(k) of a key
KeyRepr(k) == IF k = NoKey THEN <<"N", "o", "n", "e">> ELSE StrRepr(k)

\* ", ".join(...) of the keys of order
RECURSIVE JoinKeys(_)
JoinKeys(order) ==
  IF Len(order) = 1 THEN KeyRepr(order[1])
  ELSE KeyRepr(order[1]) \o <<",", " ">> \o JoinKeys(Tail(order))

\* the orders in which a set can be iterated
SetOrders(S) ==
  {o \in [1..Cardinality(S) -> S] : \A i, j \in 1..Cardinality(S) : o[i] = o[j] => i = j}

\* the cell the writer writes for a value: a str as it is, None as the
\* empty str (a float or a list has no cell in this model)
Cell(v) == CASE v.t = "str" -> v.s [] v.t = "none" -> <<>>

\* the cells of a row without wrong fields: a missing field is written empty
Cells(row) ==
  [i \in 1..Len(fieldnames) |->
     IF HasKey(row, fieldnames[i]) THEN Cell(Get(row, fieldnames[i])) ELSE <<>>]

\* writer.writerow(row) after the rows written: what the loop leaves when it
\* goes on from record n, [rows, exc]
RECURSIVE ExportLoop(_, _, _, _)
ExportLoop(records, n, written, order) ==
  IF n > Len(records) THEN [rows |-> Some(written), exc |-> None]
  ELSE LET amt == FormatAmount(records[n])
       IN  IF ~amt.ok THEN [rows |-> Some(written), exc |-> Some(amt.exc)]
           ELSE IF WrongFields(records[n]) # {}
             THEN [rows |-> Some(written),
                   exc  |-> Some(<<"ValueError: dict contains fields not in fieldnames: ">>
                                   \o JoinKeys(order))]
           ELSE ExportLoop(records, n + 1,
                           Append(written, Cells(Put(records[n], Key.sales_amount, VStr(amt.s)))),
                           order)

\* the first record with a wrong field, 0 for none
FirstWrong(records) ==
  IF \A i \in 1..Len(records) : WrongFields(records[i]) = {} THEN 0
  ELSE CHOOSE i \in 1..Len(records) :
         /\ WrongFields(records[i]) # {}
         /\ \A j \in 1..(i - 1) : WrongFields(records[j]) = {}

\* the orders in which the set of the wrong fields of the first record that
\* has some can be iterated: the set is built anew from the hashes of the
\* keys
WrongFieldOrders(records) ==
  IF FirstWrong(records) = 0 THEN {<<>>}
  ELSE SetOrders(WrongFields(records[FirstWrong(records)]))

\* export_cleaned(records), order being the iteration order of the wrong
\* fields: the data rows of OUTPUT_CLEANED, which follow its header, or the
\* file left alone (None) for no records; the file keeps the rows written
\* before an exception
export_cleaned(records, order) ==
  IF records = <<>> THEN [rows |-> None, exc |-> None]
  ELSE ExportLoop(records, 1, <<>>, order)

\* export_department_summary(dept_totals): the data rows of
\* OUTPUT_DEPT_SUMMARY, sorted by total descending
export_department_summary(dept_totals) ==
  LET rows == SortedDescending(dept_totals)
  IN  [i \in 1..Len(rows) |->
         [department |-> rows[i][1], total_sales |-> Format2f(rows[i][2])]]

----------------------------------------------------------------------------
(* The program: main, with load_and_validate_data run row by row.          *)

VARIABLES
  pc,             \* where main stands
  typed,          \* what input() returns
  fs,             \* the input file: "ok", "missing", "denied" or "corrupt"
  reader,         \* the rows csv.DictReader yields before it ends or fails
  valid,          \* load_and_validate_data: valid
  invalid_count,  \* load_and_validate_data: invalid_count
  total,          \* load_and_validate_data: total
  error_log,      \* the entries of ERROR_LOG
  loaded,         \* main: valid_records, invalid_count, total_processed
  stats,          \* main: stats
  cleaned_csv,    \* the data rows of OUTPUT_CLEANED, None while not written
  dept_csv,       \* the data rows of OUTPUT_DEPT_SUMMARY, None while not written
  console,        \* the fixed lines main has printed
  raised,         \* the exception that left main, None for none
  arg,            \* the argument of the function applied on its own
  res,            \* its result
  res2            \* the result of applying it again to that result

vars ==
  <<hash_order, pc, typed, fs, reader, valid, invalid_count, total, error_log, loaded, stats,
    cleaned_csv, dept_csv, console, raised, arg, res, res2>>

mainVars ==
  <<hash_order, typed, fs, reader, valid, invalid_count, total, error_log, loaded, stats,
    cleaned_csv, dept_csv, console, raised>>

\* a str of the model from a TLA+ string of at most a few characters is
\* written as a tuple; these are the inputs the specifications draw from

S_7 == <<"7">>

S_Ann == <<"A", "n", "n">>

S_Bob == <<"B", "o", "b">>

S_Cy == <<"C", "y">>

S_Dee == <<"D", "e", "e">>

S_Home == <<"H", "o", "m", "e">>

S_Date == <<"2", "0", "2", "4", "-", "0", "1", "-", "0", "5">>

\* a row of five str as csv.DictReader fills it, in the order of the header
Row(id, name, dept, amt, date) ==
  << <<Key.employee_id, VStr(id)>>, <<Key.employee_name, VStr(name)>>,
     <<Key.department, VStr(dept)>>, <<Key.sales_amount, VStr(amt)>>, <<Key.date, VStr(date)>> >>

\* the number of rows of an input file
MaxRows == 3

\* rows of an input file with the five columns as csv.DictReader yields
\* them: a short row has None for its missing fields, a long row has its
\* surplus values under one more key
PipelineRows ==
  { Row(<<"0", "0", "7">>, <<" ", "B", "o", "b", " ">>, <<"C","L","O","T","H","I","N","G">>,
        <<"$", "1", ",", "2", "3", "4", ".", "5", "0">>,
        <<"2", "0", "2", "4", "-", "1", "-", "5">>),
    Row(<<"2">>, S_Ann, <<"e","l","e","c","t","r","o","n","i","c","s">>,
        <<"0", ".", "1">>, S_Date),
    Put(Put(Row(<<"4">>, <<" ", "D", "e", "e">>, <<"F","u","r","n","i","t","u","r","e">>,
                <<>>, <<>>), Key.sales_amount, VNone), Key.date, VNone),
    Append(Row(<<"6">>, S_Cy, S_Home, <<"5">>, S_Date), <<NoKey, VList(<<"x">>)>>) }

\* rows of an input file with a sixth column, notes: a full row and a short
\* row
NotesRows ==
  { Append(Row(<<"6">>, <<"C", "y", "\n">>, S_Home, <<"5">>, S_Date),
           <<Key.notes, VStr(<<"h", "i">>)>>),
    Append(Put(Put(Row(<<"4">>, <<" ", "D", "e", "e">>,
                       <<"F","u","r","n","i","t","u","r","e">>, <<>>, <<>>),
                   Key.sales_amount, VNone), Key.date, VNone),
           <<Key.notes, VNone>>) }

\* the sequences over S of length at most n
SeqsUpTo(S, n) == UNION {[1..k -> S] : k \in 0..n}

FileName == <<"s", ".", "c", "s", "v">>

NoLoaded == [valid_records |-> <<>>, invalid_count |-> 0, total_processed |-> 0]

Idle ==
  /\ hash_order \in HashOrders
  /\ typed = <<>> /\ fs = "missing" /\ reader = <<>>
  /\ valid = <<>> /\ invalid_count = 0 /\ total = 0
  /\ error_log = <<>> /\ loaded = NoLoaded /\ stats = EmptyDict
  /\ cleaned_csv = None /\ dept_csv = None /\ console = <<>> /\ raised = None

Init ==
  /\ pc = "input"
  /\ hash_order \in HashOrders
  /\ typed \in {<<" ">>, <<" ">> \o FileName}
  /\ fs \in {"ok", "missing", "denied", "corrupt"}
  /\ reader \in SeqsUpTo(PipelineRows, MaxRows) \cup SeqsUpTo(NotesRows, MaxRows)
  /\ (typed = <<" ">> \/ fs \in {"missing", "denied"}) => reader = <<>>
  /\ valid = <<>> /\ invalid_count = 0 /\ total = 0
  /\ error_log = <<>> /\ loaded = NoLoaded /\ stats = EmptyDict
  /\ cleaned_csv = None /\ dept_csv = None /\ console = <<>> /\ raised = None
  /\ arg = None /\ res = None /\ res2 = None

\* main, to the call of load_and_validate_data
Input ==
  /\ pc = "input"
  /\ IF Strip(typed) = <<>>
       THEN /\ console' = Append(console, "No filename entered. Exiting.")
            /\ pc' = "done"
       ELSE /\ console' = Append(console, "Loading data...")
            /\ pc' = "load"
  /\ UNCHANGED <<hash_order, typed, fs, reader, valid, invalid_count, total, error_log, loaded,
                 stats, cleaned_csv, dept_csv, raised, arg, res, res2>>

\* load_and_validate_data, to the loop: the error log is cleared, then a
\* missing or unreadable file returns [], 0, 0
LoadOpen ==
  /\ pc = "load"
  /\ valid' = <<>> /\ invalid_count' = 0 /\ total' = 0
  /\ error_log' = <<>>
  /\ IF fs \in {"missing", "denied"}
       THEN loaded' = NoLoaded /\ pc' = "loaded"
       ELSE loaded' = loaded /\ pc' = "load_loop"
  /\ UNCHANGED <<hash_order, typed, fs, reader, stats, cleaned_csv, dept_csv, console, raised,
                 arg, res, res2>>

\* A variant of log_error that numbers the data rows from 1, without the
\* header line.
log_error_from_one(log, line, reason, original_row) ==
  Append(log, [line |-> line - 1, reason |-> reason, row |-> original_row])

\* log_error(line, reason, original_row)
log_error(log, line, reason, original_row) ==
  Append(log, [line |-> line, reason |-> reason, row |-> original_row])

\* if cleaned_row:
IsValid(r) == r.rec # None /\ r.rec[1] # EmptyDict

\* A variant of the turn of the loop in which a rejected row also discards
\* the records accepted before it.
LoadRowResultDiscarding(row_num, row, r) ==
  /\ IF r.rec # None /\ r.rec[1] # EmptyDict
       THEN /\ valid' = Append(valid, r.rec[1])
            /\ UNCHANGED <<invalid_count, error_log>>
       ELSE /\ invalid_count' = invalid_count + 1
            /\ error_log' = Append(error_log,
                              [line |-> row_num, reason |-> r.err[1], row |-> row])
            /\ valid' = <<>>
  /\ UNCHANGED <<pc, loaded>>

\* the rest of one turn of the loop, r being what clean_and_validate_row
\* left: an exception would leave the loop for the last except clause
LoadRowResult(row_num, row, r) ==
  IF r.exc # None
    THEN /\ loaded' = NoLoaded
         /\ pc' = "loaded"
         /\ UNCHANGED <<valid, invalid_count, error_log>>
  ELSE /\ IF IsValid(r)
            THEN /\ valid' = Append(valid, r.rec[1])
                 /\ UNCHANGED <<invalid_count, error_log>>
            ELSE /\ invalid_count' = invalid_count + 1
                 /\ error_log' = log_error(error_log, row_num, r.err[1], row)
                 /\ UNCHANGED valid
       /\ UNCHANGED <<pc, loaded>>

\* one turn of the loop: row total + 1 of the reader, numbered from 2
LoadRow ==
  /\ pc = "load_loop"
  /\ total < Len(reader)
  /\ total' = total + 1
  /\ LoadRowResult(total + 2, reader[total + 1],
                   clean_and_validate_row(reader[total + 1], total + 2))
  /\ UNCHANGED <<hash_order, typed, fs, reader, stats, cleaned_csv, dept_csv, console,
                 raised, arg, res, res2>>

\* the reader is exhausted: return valid, invalid_count, total
LoadReturn ==
  /\ pc = "load_loop"
  /\ total = Len(reader)
  /\ fs = "ok"
  /\ loaded' = [valid_records |-> valid, invalid_count |-> invalid_count,
                total_processed |-> total]
  /\ pc' = "loaded"
  /\ UNCHANGED <<hash_order, typed, fs, reader, valid, invalid_count, total, error_log, stats,
                 cleaned_csv, dept_csv, console, raised, arg, res, res2>>

\* the reader raises csv.Error (or the file cannot be decoded): return [], 0, 0
LoadFail ==
  /\ pc = "load_loop"
  /\ total = Len(reader)
  /\ fs = "corrupt"
  /\ loaded' = NoLoaded
  /\ pc' = "loaded"
  /\ UNCHANGED <<hash_order, typed, fs, reader, valid, invalid_count, total, error_log, stats,
                 cleaned_csv, dept_csv, console, raised, arg, res, res2>>

\* main: if total_processed == 0
CheckProcessed ==
  /\ pc = "loaded"
  /\ IF loaded.total_processed = 0
       THEN /\ console' = Append(console,
                            "No records were processed. Check file and try again.")
            /\ pc' = "done"
       ELSE /\ console' = Append(console, "Calculating statistics...")
            /\ pc' = "stats"
  /\ UNCHANGED <<hash_order, typed, fs, reader, valid, invalid_count, total, error_log, loaded,
                 stats, cleaned_csv, dept_csv, raised, arg, res, res2>>

\* main: stats = compute_statistics(valid_records)
ComputeStats ==
  /\ pc = "stats"
  /\ stats' = compute_statistics(loaded.valid_records)
  /\ pc' = "report"
  /\ UNCHANGED <<hash_order, typed, fs, reader, valid, invalid_count, total, error_log, loaded,
                 cleaned_csv, dept_csv, console, raised, arg, res, res2>>

\* display_report(stats, ...): the exception it raises, None for none; the
\* first key read is stats['total_sales']
display_report(st) ==
  IF "total_sales" \notin DOMAIN st THEN Some("KeyError: 'total_sales'") ELSE None

\* main: display_report(...); an exception leaves main
DisplayReport ==
  /\ pc = "report"
  /\ raised' = display_report(stats)
  /\ IF display_report(stats) # None
       THEN pc' = "done" /\ console' = console
       ELSE pc' = "export_cleaned" /\ console' = Append(console, "Exporting results...")
  /\ UNCHANGED <<hash_order, typed, fs, reader, valid, invalid_count, total, error_log, loaded,
                 stats, cleaned_csv, dept_csv, arg, res, res2>>

\* what export_cleaned left: an exception leaves main
Exported(x) ==
  /\ cleaned_csv' = x.rows
  /\ raised' = x.exc
  /\ pc' = IF x.exc # None THEN "done" ELSE "export_dept"

\* main: export_cleaned(valid_records)
ExportCleaned ==
  /\ pc = "export_cleaned"
  /\ \E order \in WrongFieldOrders(loaded.valid_records) :
       Exported(export_cleaned(loaded.valid_records, order))
  /\ UNCHANGED <<hash_order, typed, fs, reader, valid, invalid_count, total, error_log, loaded,
                 stats, dept_csv, console, arg, res, res2>>

\* main: export_department_summary(stats["departments"])
ExportDeptSummary ==
  /\ pc = "export_dept"
  /\ dept_csv' = Some(export_department_summary(stats.departments))
  /\ pc' = "complete"
  /\ UNCHANGED <<hash_order, typed, fs, reader, valid, invalid_count, total, error_log, loaded,
                 stats, cleaned_csv, console, raised, arg, res, res2>>

\* main: the closing lines
Complete ==
  /\ pc = "complete"
  /\ console' = Append(console, "Processing complete!")
  /\ pc' = "done"
  /\ UNCHANGED <<hash_order, typed, fs, reader, valid, invalid_count, total, error_log, loaded,
                 stats, cleaned_csv, dept_csv, raised, arg, res, res2>>

Next ==
  \/ Input
  \/ LoadOpen
  \/ LoadRow
  \/ LoadReturn
  \/ LoadFail
  \/ CheckProcessed
  \/ ComputeStats
  \/ DisplayReport
  \/ ExportCleaned
  \/ ExportDeptSummary
  \/ Complete

Spec == Init /\ [][Next]_vars

----------------------------------------------------------------------------
(* clean_and_validate_row applied on its own to one row, and then to the   *)
(* record it returned.                                                     *)

\* raw employee_id values
EmployeeIds ==
  { <<"0", "0", "7">>,
    <<"7">>,
    <<" ", "1", "2", " ">>,
    <<"0">>,
    <<"-", "3">>,
    <<"a", "b", "c">>,
    <<>> }

\* raw employee_name values
EmployeeNames ==
  { <<"A", "n", "n">>,
    <<" ", "B", "o", "b", "\r">>,
    <<>>,
    <<" ", "\n">> }

\* raw department values
Departments ==
  { <<"e", "l", "e", "c", "t", "r", "o", "n", "i", "c", "s">>,
    <<"E", "L", "E", "C", "T", "R", "O", "N", "I", "C", "S">>,
    <<"E", "l", "e", "c", "t", "r", "o", "n", "i", "c", "s">>,
    <<" ", "h", "o", "m", "e", " ">>,
    <<"F", "u", "r", "n", "i", "t", "u", "r", "e">> }

\* raw sales_amount values
SalesAmounts ==
  { <<"$", "1", ",", "2", "3", "4", ".", "5", "0">>,
    <<"1", "0", "0">>,
    <<"0", ".", "1">>,
    <<"0">>,
    <<"-", "5">>,
    <<"f", "r", "e", "e">>,
    <<"n", "a", "n">>,
    <<"i", "n", "f">> }

\* raw date values
Dates ==
  { <<"2", "0", "2", "4", "-", "0", "1", "-", "0", "5">>,
    <<"2", "0", "2", "4", "-", "1", "-", "5">>,
    <<"0", "9", "9", "9", "-", "0", "1", "-", "0", "1">>,
    <<"2", "0", "2", "4", "-", "1", "3", "-", "0", "1">>,
    <<"2", "0", "2", "4", "-", "0", "2", "-", "3", "0">>,
    <<"n", "o", "t", "-", "a", "-", "d", "a", "t", "e">> }

\* rows whose five values are str
StringRows ==
  {Row(id, name, dept, amt, date) :
     id \in EmployeeIds, name \in EmployeeNames, dept \in Departments,
     amt \in SalesAmounts, date \in Dates}

\* a row without the key k
Without(row, k) == SelectSeq(row, LAMBDA item : item[1] # k)

BaseRows ==
  { Row(S_7, S_Ann, S_Home, <<"5">>, S_Date),
    Row(<<"0">>, <<>>, <<"F","u","r","n","i","t","u","r","e">>, <<"f","r","e","e">>,
        <<"n","o","t","-","a","-","d","a","t","e">>) }

\* values that are not str
OddValues == {VNone, VFloat(PyFloat(<<"5">>).v), VFloat(FZero), VList(<<"x">>)}

\* rows with a missing key, a None, a value that is not a str, surplus
\* values, one more column, another order of the keys, no key at all
OddRows ==
  {Without(r, k) : r \in BaseRows, k \in FIELDNAMES}
  \cup {Put(r, k, v) : r \in BaseRows, k \in FIELDNAMES, v \in OddValues}
  \cup {Put(r, NoKey, VList(<<"x">>)) : r \in BaseRows}
  \cup {Put(r, Key.notes, VStr(<<"h", "i">>)) : r \in BaseRows}
  \cup {Reverse(r) : r \in BaseRows}
  \cup {Reverse(Put(Put(r, Key.employee_id, VFloat(PyFloat(<<"5">>).v)),
                    Key.date, VList(<<"x">>))) : r \in BaseRows}
  \cup {EmptyDict}

\* employee_id values of MAX_STR_DIGITS digits and of one digit more
LongIds ==
  { [i \in 1..(MAX_STR_DIGITS - 1) |-> "0"] \o <<"7">>,
    [i \in 1..MAX_STR_DIGITS |-> "0"] \o <<"7">> }

\* rows that are good but for the length of their employee_id
LongRows == {Row(id, S_Ann, S_Home, <<"5">>, S_Date) : id \in LongIds}

ValidateRows == StringRows \cup OddRows \cup LongRows

InitValidate ==
  /\ pc = "validate"
  /\ Idle
  /\ arg \in ValidateRows
  /\ res = None /\ res2 = None

\* cleaned_row, error = clean_and_validate_row(row, row_num)
Validate ==
  /\ pc = "validate"
  /\ res' = clean_and_validate_row(arg, 2)
  /\ pc' = "validated"
  /\ UNCHANGED <<mainVars, arg, res2>>

\* the returned record passed back in as the row
Revalidate ==
  /\ pc = "validated"
  /\ res.rec # None
  /\ res2' = clean_and_validate_row(res.rec[1], 2)
  /\ pc' = "revalidated"
  /\ UNCHANGED <<mainVars, arg, res>>

NextValidate == Validate \/ Revalidate

SpecValidate == InitValidate /\ [][NextValidate]_vars

----------------------------------------------------------------------------
(* compute_statistics applied on its own to records that                   *)
(* clean_and_validate_row returned.                                        *)

\* the number of records
MaxRecords == 3

StatsRows ==
  { Row(<<"1">>, S_Ann, <<"E","l","e","c","t","r","o","n","i","c","s">>,
        <<"1", "0", "0">>, S_Date),
    Row(<<"2">>, S_Bob, <<"E","l","e","c","t","r","o","n","i","c","s">>,
        <<"1", "0", "0">>, <<"2", "0", "2", "4", "-", "0", "2", "-", "2", "9">>),
    Row(<<"3">>, S_Cy, <<"C","l","o","t","h","i","n","g">>, <<"1", "0", "0">>, S_Date),
    Row(<<"4">>, S_Dee, S_Home, <<"1", "0", "0">>,
        <<"2", "0", "2", "3", "-", "1", "2", "-", "3", "1">>),
    Row(<<"5">>, S_Ann, <<"C","l","o","t","h","i","n","g">>, <<"5", "0">>, S_Date),
    Row(<<"1">>, S_Ann, <<"E","l","e","c","t","r","o","n","i","c","s">>,
        <<"0", ".", "1">>, S_Date),
    Row(<<"2">>, S_Bob, <<"C","l","o","t","h","i","n","g">>, <<"0", ".", "1">>, S_Date),
    Row(<<"3">>, S_Cy, <<"S","p","o","r","t","s">>, <<"n", "a", "n">>, S_Date) }

StatsRecords == {clean_and_validate_row(r, 2).rec[1] : r \in StatsRows}

InitStats ==
  /\ pc = "aggregate"
  /\ Idle
  /\ arg \in SeqsUpTo(StatsRecords, MaxRecords)
  /\ res = None /\ res2 = None

\* stats = compute_statistics(records)
Aggregate ==
  /\ pc = "aggregate"
  /\ res' = compute_statistics(arg)
  /\ pc' = "aggregated"
  /\ UNCHANGED <<mainVars, arg, res2>>

NextStats == Aggregate

SpecStats == InitStats /\ [][NextStats]_vars

----------------------------------------------------------------------------
(* Properties of the loading loop and of main.                             *)

\* what clean_and_validate_row returns for each of rows, applied to it alone
\* with its line number
RowResults(rows) ==
  [i \in 1..Len(rows) |-> clean_and_validate_row(rows[i], i + 1)]

\* the records of the accepted rows, in their order
Kept(rs) ==
  LET acc == SelectSeq(rs, IsValid)
  IN  [i \in 1..Len(acc) |-> acc[i].rec[1]]

\* the positions of the rejected rows
Rejected(rs) == {i \in 1..Len(rs) : ~IsValid(rs[i])}

\* the rows the loop has been through
Seen == SubSeq(reader, 1, total)

RowsIndependent(rs) ==
  /\ valid = Kept(rs)
  /\ Len(valid) + invalid_count = total
  /\ invalid_count = Cardinality(Rejected(rs))
  /\ (pc # "load_loop" /\ fs = "ok") =>
       /\ total = Len(reader)
       /\ loaded = [valid_records   |-> Kept(rs),
                    invalid_count   |-> Cardinality(Rejected(rs)),
                    total_processed |-> Len(reader)]

\* C8: each row is accepted or rejected on its own. Once the error log is
\* cleared, the records kept are the normal forms of the rows that are
\* accepted alone, in input order, whatever rows stand around them; the kept
\* and the rejected rows add up to the rows read; and a file read to its
\* end returns just that.
C8_RowsIndependent ==
  pc \notin {"input", "load"} => RowsIndependent(RowResults(Seen))

AcceptedRejectedAccepted(rs) ==
  Len(rs) = 3 /\ IsValid(rs[1]) /\ ~IsValid(rs[2]) /\ IsValid(rs[3])

\* C8, its case: a file of three rows read to its end, the second rejected
\* between two accepted ones
C8_Witness ==
  /\ pc = "loaded" /\ fs = "ok"
  /\ AcceptedRejectedAccepted(RowResults(reader))
  /\ Len(loaded.valid_records) = 2 /\ loaded.invalid_count = 1

\* the j-th rejected position
NthRejected(rej, j) ==
  CHOOSE i \in rej : Cardinality({h \in rej : h <= i}) = j

ErrorLogEntries(rows, rs, rej) ==
  /\ Len(error_log) = Cardinality(rej)
  /\ \A j \in 1..Len(error_log) :
       error_log[j] = [line   |-> NthRejected(rej, j) + 1,
                       reason |-> rs[NthRejected(rej, j)].err[1],
                       row    |-> rows[NthRejected(rej, j)]]

ErrorLogOf(rows, rs) == ErrorLogEntries(rows, rs, Rejected(rs))

\* C10: the error log holds one entry for each rejected row and none for an
\* accepted one, in input order; the entry of the row at position k of the
\* data rows carries the line k + 1, the reason clean_and_validate_row gives
\* for the row, and the row as it was read, not its trimmed copy.
C10_ErrorLogEntries ==
  pc \notin {"input", "load"} => ErrorLogOf(Seen, RowResults(Seen))

\* C10, its case: an accepted row, then two rejected rows, the first of them
\* with a value that trimming would change
C10_Witness ==
  /\ pc = "loaded" /\ Len(reader) = 3 /\ Len(error_log) = 2
  /\ IsValid(clean_and_validate_row(reader[1], 2))
  /\ error_log[1].line = 3 /\ error_log[2].line = 4
  /\ error_log[1].row = reader[2]
  /\ \E k \in 1..Len(reader[2]) :
       reader[2][k][2].t = "str" /\ Strip(reader[2][k][2].s) # reader[2][k][2].s

\* C9: a run of main over a readable file with at least one data row goes
\* on to the end, whatever rows are rejected: nothing is raised out of main
\* and its last line is printed.
C9_RowErrorsNeverAbort ==
  (pc = "done" /\ Strip(typed) # <<>> /\ fs = "ok" /\ Len(reader) >= 1) =>
    /\ raised = None
    /\ console # <<>> /\ console[Len(console)] = "Processing complete!"

----------------------------------------------------------------------------
(* Properties of clean_and_validate_row.                                   *)

\* a float that is a number greater than 0
FPositive(f) == f.k # "nan" /\ ~f.neg /\ ~(f.k = "fin" /\ f.m = <<>>)

PositiveInt(p) == p.ok /\ ~IntLeZero(p.v)

PositiveAmount(p) == p.ok /\ FPositive(p.v)

\* The rules of the five fields, on a raw value.
GoodEmployeeId(s) == PositiveInt(PyInt(Strip(s)))

GoodEmployeeName(s) == Strip(s) # <<>>

GoodDepartment(s) == Title(Strip(s)) \in VALID_DEPARTMENTS

GoodSalesAmount(s) ==
  PositiveAmount(PyFloat(Strip(RemoveChar(RemoveChar(Strip(s), "$"), ","))))

GoodDate(s) == Strptime(Strip(s)).ok

\* the message of the earliest invalid field of a row of str, None for none
FirstFailure(row) ==
  IF ~GoodEmployeeId(Get(row, Key.employee_id).s) THEN Some(ERR_EMPLOYEE_ID)
  ELSE IF ~GoodEmployeeName(Get(row, Key.employee_name).s) THEN Some(ERR_EMPLOYEE_NAME)
  ELSE IF ~GoodDepartment(Get(row, Key.department).s) THEN Some(ERR_DEPARTMENT)
  ELSE IF ~GoodSalesAmount(Get(row, Key.sales_amount).s) THEN Some(ERR_SALES_AMOUNT)
  ELSE IF ~GoodDate(Get(row, Key.date).s) THEN Some(ERR_DATE)
  ELSE None

\* a row with the five keys and str values
StringRow(row) ==
  /\ KeySet(row) = FIELDNAMES /\ Len(row) = Len(fieldnames)
  /\ \A i \in 1..Len(row) : row[i][2].t = "str"

Validated == pc \in {"validated", "revalidated"}

\* C1: for a row whose five values are str, the reason reported is the
\* message of the earliest field, in the order employee_id, employee_name,
\* department, sales_amount, date, that is invalid, whatever the later
\* fields are, and the row is accepted only when no field is invalid; a
\* sales_amount is valid when it is a number greater than 0.
C1_FirstFailureWins ==
  (Validated /\ StringRow(arg)) =>
    /\ res.err = FirstFailure(arg)
    /\ res.rec # None <=> FirstFailure(arg) = None

\* the decimal str of a positive int, no leading zeros
CanonicalId(s) == s # <<>> /\ AllDigits(s) /\ s[1] # "0"

\* a day of the calendar as YYYY-MM-DD, zero-padded
CanonicalDate(s) ==
  /\ Len(s) = 10 /\ s[5] = "-" /\ s[8] = "-"
  /\ AllDigits(SubSeq(s, 1, 4)) /\ AllDigits(SubSeq(s, 6, 7)) /\ AllDigits(SubSeq(s, 9, 10))
  /\ DigitsToInt(SubSeq(s, 1, 4)) >= 1
  /\ DigitsToInt(SubSeq(s, 6, 7)) \in 1..12
  /\ DigitsToInt(SubSeq(s, 9, 10)) \in
       1..DaysInMonth(DigitsToInt(SubSeq(s, 1, 4)), DigitsToInt(SubSeq(s, 6, 7)))

\* the rules of a NormalizedRecord
Normalized(r) ==
  /\ FIELDNAMES \subseteq KeySet(r)
  /\ Get(r, Key.employee_id).t = "str" /\ CanonicalId(Get(r, Key.employee_id).s)
  /\ Get(r, Key.employee_name).t = "str" /\ Get(r, Key.employee_name).s # <<>>
  /\ Get(r, Key.department).t = "str" /\ Get(r, Key.department).s \in VALID_DEPARTMENTS
  /\ Get(r, Key.sales_amount).t = "float" /\ FPositive(Get(r, Key.sales_amount).f)
  /\ Get(r, Key.date).t = "str" /\ CanonicalDate(Get(r, Key.date).s)

\* C2: every record that clean_and_validate_row returns as a success
\* satisfies the rules of a NormalizedRecord: a canonical positive
\* employee_id, a name that is not empty, a department of the four, a
\* sales_amount greater than 0 and a zero-padded calendar date.
C2_AcceptedIsNormalized ==
  (Validated /\ res.rec # None) => Normalized(res.rec[1])

\* str(e) of the exceptions that are not failures of a field rule
ExceptionTexts ==
  { "'employee_name'", "'department'", "'sales_amount'",
    "'float' object has no attribute 'strip'",
    "'list' object has no attribute 'strip'" }

\* one of the two outcomes: (normalized record, no error) or (no record, a
\* reason)
Outcome(r) ==
  /\ r.exc = None
  /\ \/ r.rec # None /\ r.err = None /\ Normalized(r.rec[1])
     \/ r.rec = None /\ r.err # None /\ r.err[1] # ""

\* the reason is the message of a field rule or tells an unexpected error
ReasonKnown(r) ==
  r.rec = None =>
    \/ r.err[1] \in FieldErrors
    \/ \E t \in ExceptionTexts : r.err[1] = "unexpected error: " \o t

\* C3: clean_and_validate_row raises nothing, whatever the row, with keys
\* missing, None or values that are not str: it returns either a record
\* that satisfies the rules of a NormalizedRecord and no error, or no record
\* and a reason that is not empty; and an exception that is not the failure
\* of a field rule is reported as a reason that begins with
\* "unexpected error: ".
C3_NeverRaisesOutward ==
  /\ Validated =>
       /\ Outcome(res) /\ ReasonKnown(res)
       /\ ValidateBody(arg).exc # None =>
            /\ res.rec = None
            /\ \E t \in ExceptionTexts : res.err[1] = "unexpected error: " \o t
  /\ pc = "revalidated" => Outcome(res2) /\ ReasonKnown(res2)

\* C4: validating again the record of an accepted row, taken as a row,
\* succeeds with a record equal to it.
C4_Idempotent ==
  pc = "revalidated" => res2 = [rec |-> res.rec, err |-> None, exc |-> None]

----------------------------------------------------------------------------
(* Properties of compute_statistics.                                       *)

Aggregated == pc = "aggregated"

\* the six fields of a Statistics for no records
ZeroStatistics ==
  [total_sales |-> FZero, avg_sale |-> FZero, departments |-> EmptyDict,
   dept_counts |-> EmptyDict, top_employees |-> <<>>, date_range |-> NA]

\* C5: compute_statistics of no records returns the zero-valued Statistics:
\* total_sales 0, avg_sale 0, departments, dept_counts and top_employees
\* empty, date_range "N/A".
C5_EmptyIsZero ==
  (Aggregated /\ arg = <<>>) =>
    /\ DOMAIN res = DOMAIN ZeroStatistics
    /\ res = ZeroStatistics

Amounts(records) == [i \in 1..Len(records) |-> Get(records[i], Key.sales_amount).f]

\* the sum of floats as Python accumulates it, from 0.0, in order
RECURSIVE FSum(_)
FSum(xs) ==
  IF xs = <<>> THEN FZero ELSE FAdd(FSum(SubSeq(xs, 1, Len(xs) - 1)), xs[Len(xs)])

\* a + b of two finite floats that are not negative, with no rounding
ExactAdd(a, b) ==
  IF a.k # "fin" \/ b.k # "fin" THEN FAdd(a, b)
  ELSE IF a.m = <<>> THEN b
  ELSE IF b.m = <<>> THEN a
  ELSE FCanon(BAdd(BShl(a.m, a.e - (IF a.e < b.e THEN a.e ELSE b.e)),
                   BShl(b.m, b.e - (IF a.e < b.e THEN a.e ELSE b.e))),
              IF a.e < b.e THEN a.e ELSE b.e)

\* the sum of floats as a number
RECURSIVE ExactSum(_)
ExactSum(xs) ==
  IF xs = <<>> THEN FZero ELSE ExactAdd(ExactSum(SubSeq(xs, 1, Len(xs) - 1)), xs[Len(xs)])

RECURSIVE IntSum(_)
IntSum(xs) ==
  IF xs = <<>> THEN 0 ELSE IntSum(SubSeq(xs, 1, Len(xs) - 1)) + xs[Len(xs)]

InDept(records, d) == SelectSeq(records, LAMBDA r : Get(r, Key.department).s = d)

Named(records, n) == SelectSeq(records, LAMBDA r : Get(r, Key.employee_name).s = n)

DeptsOf(records) == {Get(records[i], Key.department).s : i \in 1..Len(records)}

NamesOf(records) == {Get(records[i], Key.employee_name).s : i \in 1..Len(records)}

Least(a, b) == IF a < b THEN a ELSE b

\* the totals, the counts and their keys
SumsAndCounts(records, st) ==
  /\ st.total_sales = FSum(Amounts(records))
  /\ KeySet(st.departments) = DeptsOf(records)
  /\ Len(st.departments) = Cardinality(DeptsOf(records))
  /\ KeySet(st.dept_counts) = DeptsOf(records)
  /\ Len(st.dept_counts) = Cardinality(DeptsOf(records))
  /\ \A d \in DeptsOf(records) :
       /\ Get(st.departments, d) = FSum(Amounts(InDept(records, d)))
       /\ Get(st.dept_counts, d) = Len(InDept(records, d))
  /\ Len(st.top_employees) = Least(3, Cardinality(NamesOf(records)))
  /\ \A i \in 1..Len(st.top_employees) :
       /\ st.top_employees[i][1] \in NamesOf(records)
       /\ st.top_employees[i][2] = FSum(Amounts(Named(records, st.top_employees[i][1])))
       /\ \A j \in 1..Len(st.top_employees) :
            st.top_employees[i][1] = st.top_employees[j][1] => i = j
  /\ IntSum(Values(st.dept_counts)) = Len(records)

\* the department totals add up to total_sales, as numbers or as Python
\* adds them
TotalsAddUp(st) ==
  \/ ExactSum(Values(st.departments)) = st.total_sales
  \/ FSum(Values(st.departments)) = st.total_sales

\* no addition of the accumulations rounds
NoRounding(records) ==
  /\ FSum(Amounts(records)) = ExactSum(Amounts(records))
  /\ \A d \in DeptsOf(records) :
       FSum(Amounts(InDept(records, d))) = ExactSum(Amounts(InDept(records, d)))

NormalizedRecords(records) ==
  records # <<>> /\ \A i \in 1..Len(records) : Normalized(records[i])

\* C6: for records that are normalized and not none, total_sales is the sum
\* of the amounts and departments[d] the sum of the amounts of department
\* d, each as floating-point addition accumulates it in input order;
\* dept_counts[d] is the number of records of d; the totals of the
\* employees are kept by employee_name alone; departments and dept_counts
\* have the departments of the input as keys; the counts add up to the
\* number of records; and the department totals add up to total_sales
\* whenever no addition rounds.
C6_SumsAndCounts ==
  (Aggregated /\ NormalizedRecords(arg)) =>
    /\ SumsAndCounts(arg, res)
    /\ NoRounding(arg) => TotalsAddUp(res)

\* C6 as stated: the department totals add up to total_sales for all
\* normalized records.
C6_TotalsAlwaysAddUp ==
  (Aggregated /\ NormalizedRecords(arg)) =>
    /\ SumsAndCounts(arg, res)
    /\ TotalsAddUp(res)

\* C6, its case: three records in two departments, two of them of one name
\* under two employee_id, whose sums do not round
C6_Witness ==
  /\ Aggregated /\ Len(arg) = 3 /\ NormalizedRecords(arg) /\ NoRounding(arg)
  /\ Cardinality(DeptsOf(arg)) = 2
  /\ \E i, j \in 1..3 :
       /\ Get(arg[i], Key.employee_name).s = Get(arg[j], Key.employee_name).s
       /\ Get(arg[i], Key.employee_id).s # Get(arg[j], Key.employee_id).s
  /\ Len(res.top_employees) = 2

\* a = b of two floats
FEq(a, b) == a.k # "nan" /\ b.k # "nan" /\ a = b

\* the position at which a name is first met
FirstMet(records, n) ==
  CHOOSE i \in 1..Len(records) :
    /\ Get(records[i], Key.employee_name).s = n
    /\ \A j \in 1..(i - 1) : Get(records[j], Key.employee_name).s # n

NameTotal(records, n) == FSum(Amounts(Named(records, n)))

\* the entry x stands rightly before the entry y: its total is not less,
\* and if the totals are equal its name was met first
RightlyBefore(records, x, y) ==
  /\ ~FLess(x[2], y[2])
  /\ FEq(x[2], y[2]) => FirstMet(records, x[1]) < FirstMet(records, y[1])

Ranked(records, top) ==
  /\ Len(top) = Least(3, Cardinality(NamesOf(records)))
  /\ \A i \in 1..Len(top) :
       /\ top[i][1] \in NamesOf(records)
       /\ top[i][2] = NameTotal(records, top[i][1]) \/ top[i][2].k = "nan"
       /\ \A j \in (i + 1)..Len(top) :
            top[i][1] # top[j][1] /\ RightlyBefore(records, top[i], top[j])
       /\ \A n \in NamesOf(records) \ {top[j][1] : j \in 1..Len(top)} :
            RightlyBefore(records, top[i], <<n, NameTotal(records, n)>>)

\* C7: top_employees is the first min(3, number of names) entries of the
\* totals by name in descending order of total, names of equal totals in
\* the order in which they were first met in the input.
C7_TopEmployees ==
  (Aggregated /\ arg # <<>>) => Ranked(arg, res.top_employees)

============================================================================
